---- MODULE Spec2Model ----
(***************************************************************************)
(* Model of the sleek-coach agent orchestration core:                      *)
(*   - the safety policy engine   (app/coach_ai/policies)                  *)
(*   - the tool registry          (app/coach_ai/tools/registry.py)         *)
(*   - the orchestrator + service (app/coach_ai/orchestrator.py,           *)
(*                                 app/coach_ai/service.py)                *)
(*                                                                         *)
(* Texts are modelled by the features the policies' patterns read: a text  *)
(* is a record naming which pattern families it matches and which numbers  *)
(* it mentions, plus the list of disclaimers appended to it.               *)
(* The specifications share the variables: SpecEngine (policy engine),     *)
(* SpecRegistry and SpecConsent (tool registry), SpecCoach (service turns)  *)
(* and SpecOrchestrator (tool loop on a plain message).                    *)
(***************************************************************************)
EXTENDS Integers, Sequences, FiniteSets, TLC

VARIABLES
    eng,        \* policy engine: the last check run and the violation log
    tools,      \* ToolRegistry._tools: the names of the registered tools
    consents,   \* ToolRegistry._user_consents: user -> set of tool names
    cache,      \* redis tool cache: the live entries (key, data, time left)
    redis,      \* TRUE when the registry was built with a redis client
    watch,      \* history: one earlier execute_tool call that ran the tool body
    lastCall,   \* history: the most recent execute_tool call and its outcome
    loads,      \* user -> the load_user_consents_from_db coroutine in flight
    pc,         \* coach turn: position in chat / chat_stream / generate_plan
    turn,       \* coach turn: the per-turn locals of service and orchestrator
    session,    \* AISession: message_count, tokens_used, conversation_history
    delivered,  \* what the caller has received in this turn, in order
    auditLog,   \* AIToolCallLog rows added to the database session
    built       \* ContextBuilder: the data found, the options, the CoachContext

vars == <<eng, tools, consents, cache, redis, watch, lastCall, loads,
          pc, turn, session, delivered, auditLog, built>>

engineVars   == <<eng>>
registryVars == <<tools, consents, cache, redis, watch, lastCall, loads>>
coachVars    == <<pc, turn, session, delivered, auditLog>>
contextVars  == <<built>>

(***************************************************************************)
(* Texts                                                                   *)
(***************************************************************************)
\* A text: msg names a fixed string of the program ("llm" for model output,
\* "user" for user input, "None" for Python's None, "" for the empty string);
\* the feature fields say what the policies' regular expressions find in it.
Txt(msg, ed, cal, lead, loss, unit, med, cond) ==
    [msg |-> msg, ed |-> ed, cal |-> cal, lead |-> lead, loss |-> loss,
     unit |-> unit, med |-> med, cond |-> cond, disc |-> <<>>]

Fixed(msg) == Txt(msg, FALSE, 0, FALSE, 0, "kg", FALSE, FALSE)
NoneText  == Fixed("None")
EmptyText == Fixed("")

\* Python truthiness of an optional string
Truthy(t) == t.msg # "None" /\ t.msg # ""

\* Python's  a or b
PyOr(a, b) == IF Truthy(a) THEN a ELSE b

(***************************************************************************)
(* Safety policies                                                         *)
(***************************************************************************)
MIN_CALORIES_FEMALE == 1200
MIN_CALORIES_MALE == 1500

PolicyResult(passed, action, severity, vtype, message, disclaimer) ==
    [passed |-> passed, action |-> action, severity |-> severity,
     violation_type |-> vtype, message |-> message,
     modified_content |-> NoneText, disclaimer |-> disclaimer]

Allow == PolicyResult(TRUE, "allow", "None", "None", NoneText, "None")

MinCal(ctx) == IF ctx.sex = "female" THEN MIN_CALORIES_FEMALE ELSE MIN_CALORIES_MALE

\* EatingDisorderPolicy
EDSupportMessage == Fixed("ed_support_message")
EDCheckInput(t, ctx) ==
    IF t.ed
    THEN PolicyResult(FALSE, "flag", "critical", "eating_disorder_signal",
                      EDSupportMessage, "None")
    ELSE Allow

EDCheckOutput(t, ctx) ==
    IF t.ed
    THEN PolicyResult(FALSE, "block", "critical", "ed_promotion",
                      Fixed("ed_harmful_advice_message"), "None")
    ELSE Allow

\* CaloriePolicy.check_input: pattern 1 takes a 2-3 digit number before
\* cal/calories/kcal; patterns 2-4 take a 3-4 digit number after
\* under/only/less than.  Each matched number is compared with min_cal.
CalorieInputMatches(t) ==
    {n \in {t.cal} : (n >= 10 /\ n <= 999) \/ (t.lead /\ n >= 100 /\ n <= 9999)}

CalorieCheckInput(t, ctx) ==
    IF \E n \in CalorieInputMatches(t) : n < MinCal(ctx)
    THEN PolicyResult(FALSE, "modify", "warning", "calorie_minimum_request",
                      Fixed(IF MinCal(ctx) = MIN_CALORIES_FEMALE
                            THEN "calorie_below_1200_message"
                            ELSE "calorie_below_1500_message"), "None")
    ELSE Allow

\* CaloriePolicy.check_output: every 3-4 digit number followed by
\* cal/kcal/calories (or after eat/target/aim for) is compared with min_cal.
CalorieOutputMatches(t) == {n \in {t.cal} : n >= 100 /\ n <= 9999}

CalorieCheckOutput(t, ctx) ==
    IF \E n \in CalorieOutputMatches(t) : n < MinCal(ctx)
    THEN PolicyResult(FALSE, "modify", "warning", "calorie_minimum", NoneText,
                      IF MinCal(ctx) = MIN_CALORIES_FEMALE
                      THEN "calorie_below_1200_disclaimer"
                      ELSE "calorie_below_1500_disclaimer")
    ELSE Allow

\* WeightLossPolicy.  Amounts are kept as integers in millionths of a
\* kilogram (amount * 0.453592).  The conversion test is
\*     if "lb" in pattern or "pound" in pattern
\* and reads the source of the regular expression, which names all of
\* lbs?, pounds?, kg and kilos? in every pattern, not the unit matched.
LB_TO_KG_MICRO == 453592
RapidLossPatternUnits == {"lb", "pound", "kg", "kilo"}
AmountKgMicro(amount, unit) ==
    IF "lb" \in RapidLossPatternUnits \/ "pound" \in RapidLossPatternUnits
    THEN amount * LB_TO_KG_MICRO
    ELSE amount * 1000000

WeightLossCheckInput(t, ctx) ==
    IF t.loss = 0 THEN Allow
    ELSE IF ctx.current_weight_kg # 0
    THEN \* safe_rate_kg = weight * 0.01 ; amount_kg > safe_rate_kg * 1.5
         IF AmountKgMicro(t.loss, t.unit) > ctx.current_weight_kg * 15000
         THEN PolicyResult(FALSE, "modify", "warning", "rapid_weight_loss_request",
                           Fixed("weight_loss_safe_rate_message"), "None")
         ELSE Allow
    ELSE IF AmountKgMicro(t.loss, t.unit) > 1000000
         THEN PolicyResult(FALSE, "modify", "warning", "rapid_weight_loss_request",
                           Fixed("weight_loss_general_message"), "None")
         ELSE Allow

WeightLossCheckOutput(t, ctx) ==
    IF t.loss # 0 /\ AmountKgMicro(t.loss, t.unit) > 1000000
    THEN PolicyResult(FALSE, "modify", "warning", "rapid_weight_loss_recommendation",
                      NoneText, "weight_loss_note_disclaimer")
    ELSE Allow

\* MedicalClaimsPolicy
MedicalCheckInput(t, ctx) ==
    IF t.med
    THEN PolicyResult(FALSE, "flag", "warning", "medical_request",
                      Fixed("medical_referral_message"), "None")
    ELSE IF t.cond
    THEN PolicyResult(TRUE, "allow", "None", "None", NoneText, "medical_disclaimer")
    ELSE Allow

MedicalCheckOutput(t, ctx) ==
    IF t.med
    THEN PolicyResult(FALSE, "block", "blocked", "medical_diagnosis",
                      Fixed("medical_no_diagnosis_message"), "None")
    ELSE IF t.cond
    THEN PolicyResult(TRUE, "modify", "None", "None", NoneText, "medical_disclaimer")
    ELSE Allow

(***************************************************************************)
(* Safety policy engine                                                    *)
(***************************************************************************)
\* Variant: the medical-claims policy registered ahead of the others
Policies_MedicalFirst ==
    <<"medical_claims", "eating_disorder", "calorie", "weight_loss">>

\* SafetyPolicyEngine._policies, most critical first
Policies == <<"eating_disorder", "calorie", "weight_loss", "medical_claims">>

PolicyCheckInput(p, t, ctx) ==
    CASE p = "eating_disorder" -> EDCheckInput(t, ctx)
      [] p = "calorie"         -> CalorieCheckInput(t, ctx)
      [] p = "weight_loss"     -> WeightLossCheckInput(t, ctx)
      [] p = "medical_claims"  -> MedicalCheckInput(t, ctx)

PolicyCheckOutput(p, t, ctx) ==
    CASE p = "eating_disorder" -> EDCheckOutput(t, ctx)
      [] p = "calorie"         -> CalorieCheckOutput(t, ctx)
      [] p = "weight_loss"     -> WeightLossCheckOutput(t, ctx)
      [] p = "medical_claims"  -> MedicalCheckOutput(t, ctx)

\* _log_violation: a row is added when a session is available and the result
\* names a violation type; an exception while adding is caught and logged.
\* env.session: the engine has a database session; env.addFails: adding raises.
\* Variant: the add is made outside any try/except
CaughtWhileLogging_Nothing == {}

\* except Exception around the add: every Exception raised there is caught
CaughtWhileLogging == {"Exception"}

\* _log_violation: whether an exception leaves it
LogViolationRaises(r, env) ==
    /\ env.session /\ r.violation_type # "None" /\ env.addFails
    /\ "Exception" \notin CaughtWhileLogging

LogViolation(logs, r, is_input, env) ==
    IF env.session /\ r.violation_type # "None" /\ ~env.addFails
    THEN Append(logs, [violation_type |-> r.violation_type,
                       action_taken |-> r.action, is_input |-> is_input])
    ELSE logs

\* Variant: any failed result with a message is returned at once
ReturnsAtOnce_AnyMessage(r) == Truthy(r.message)

\* check_input: a failed result is returned at once when
\* result.action in (BLOCK, FLAG) and result.message
ReturnsAtOnce(r) == r.action \in {"block", "flag"} /\ Truthy(r.message)

\* check_input: the loop over the policies from index i on
RECURSIVE CheckInputFrom(_, _, _, _, _)
CheckInputFrom(i, t, ctx, logs, env) ==
    IF i > Len(Policies)
    THEN [result |-> Allow, logs |-> logs, raised |-> FALSE]
    ELSE LET r == PolicyCheckInput(Policies[i], t, ctx) IN
         IF ~r.passed
         THEN LET logs2 == LogViolation(logs, r, TRUE, env) IN
              IF LogViolationRaises(r, env)
              THEN [result |-> Allow, logs |-> logs, raised |-> TRUE]
              ELSE IF ReturnsAtOnce(r)
              THEN [result |-> r, logs |-> logs2, raised |-> FALSE]
              ELSE CheckInputFrom(i + 1, t, ctx, logs2, env)
         ELSE CheckInputFrom(i + 1, t, ctx, logs, env)

check_input(t, ctx, logs, env) == CheckInputFrom(1, t, ctx, logs, env)

\* Variant: the disclaimers as collected, repeats included
Dedup_KeepAll(s) == s

\* list(dict.fromkeys(disclaimers)): first occurrences, in order
RECURSIVE Dedup(_)
Dedup(s) ==
    IF s = <<>> THEN <<>>
    ELSE LET h == Dedup(SubSeq(s, 1, Len(s) - 1)) IN
         IF \E k \in 1..Len(h) : h[k] = s[Len(s)] THEN h ELSE Append(h, s[Len(s)])

\* check_output: the loop over the policy list ps from index i on; cur is
\* modified_output, ds the disclaimers collected so far.
RECURSIVE CheckOutputOver(_, _, _, _, _, _, _, _)
CheckOutputOver(ps, i, orig, cur, ds, ctx, logs, env) ==
    IF i > Len(ps)
    THEN LET final == IF ds # <<>> THEN [cur EXCEPT !.disc = cur.disc \o Dedup(ds)]
                      ELSE cur
         IN [result |-> [Allow EXCEPT !.modified_content =
                                          IF final # orig THEN final ELSE NoneText],
             logs |-> logs, raised |-> FALSE]
    ELSE LET r == PolicyCheckOutput(ps[i], cur, ctx) IN
         IF ~r.passed
         THEN LET logs2 == LogViolation(logs, r, FALSE, env) IN
              IF LogViolationRaises(r, env)
              THEN [result |-> Allow, logs |-> logs, raised |-> TRUE]
              ELSE IF r.action = "block"
              THEN [result |-> r, logs |-> logs2, raised |-> FALSE]
              ELSE CheckOutputOver(ps, i + 1, orig,
                       IF r.action = "modify" /\ Truthy(r.modified_content)
                       THEN r.modified_content ELSE cur,
                       IF r.disclaimer # "None" THEN Append(ds, r.disclaimer) ELSE ds,
                       ctx, logs2, env)
         ELSE CheckOutputOver(ps, i + 1, orig, cur,
                  IF r.disclaimer # "None" THEN Append(ds, r.disclaimer) ELSE ds,
                  ctx, logs, env)

\* check_output over the engine's own list
CheckOutputFrom(i, orig, cur, ds, ctx, logs, env) ==
    CheckOutputOver(Policies, i, orig, cur, ds, ctx, logs, env)

check_output(t, ctx, logs, env) == CheckOutputFrom(1, t, t, <<>>, ctx, logs, env)

(***************************************************************************)
(* Tool registry                                                           *)
(***************************************************************************)
Users == {"u1", "u2"}

\* Cache lifetimes in clock ticks (cache_ttl_seconds of the tool classes,
\* scaled down: get_recent_checkins expires before get_user_profile).
ProfileTtl == 2
CheckinsTtl == 1

\* The tool classes: category, cacheable, cache_ttl_seconds.
ToolClass(name) ==
    CASE name = "get_user_profile" ->
             [category |-> "internal", cacheable |-> TRUE, ttl |-> ProfileTtl]
      [] name = "get_recent_checkins" ->
             [category |-> "internal", cacheable |-> TRUE, ttl |-> CheckinsTtl]
      [] name = "search_web" ->
             [category |-> "external", cacheable |-> TRUE, ttl |-> CheckinsTtl]

\* TOOL_CONSENT_MAP restricted to the tools modelled
TOOL_CONSENT_MAP == [search_web |-> "web_search"]
ConsentTypes == {"web_search"}

\* An argument map is a set of <<key, value>> pairs.
Keys(arguments) == {kv[1] : kv \in arguments}

\* A tool payload: native says it is built of JSON types only.
Data(val) == [val |-> val, native |-> TRUE]
NoData == [val |-> "None", native |-> TRUE]

\* json.loads(json.dumps(data, default=str)): JSON types come back as they
\* were, any other value comes back as its str().
JsonRoundTrip(d) == [d EXCEPT !.native = TRUE]

ToolResult(success, data, error, cached) ==
    [success |-> success, data |-> data, error |-> error, cached |-> cached]

\* BaseTool.get_cache_key: a hash of name, user id and the arguments dumped
\* with sorted keys; distinct triples are taken to hash to distinct keys.
get_cache_key(name, user_id, arguments) == <<name, user_id, arguments>>

\* Python binds  f(self, user_id, **kwargs)  called as  f(user_id, **arguments):
\* a key of the map that names a positional parameter is a TypeError.
BindsTwice(params, arguments) == Keys(arguments) \cap params # {}

_has_consent(user_id, tool_name) == tool_name \in consents[user_id]

CacheEntry(key) == {e \in cache : e.key = key}

\* Variant: the lookup never finds the entry that _set_cached wrote
_get_cached_AlwaysMiss(key, env) == NoData

\* Variant: an entry is returned although reading it failed
_get_cached_IgnoresError(key, env) ==
    IF ~redis \/ CacheEntry(key) = {}
    THEN NoData
    ELSE (CHOOSE e \in CacheEntry(key) : TRUE).data

\* _get_cached: None on a read error and on a missing key
_get_cached(key, env) ==
    IF ~redis \/ env.readErr \/ CacheEntry(key) = {}
    THEN NoData
    ELSE (CHOOSE e \in CacheEntry(key) : TRUE).data

\* _set_cached: setex replaces the entry; an error leaves the cache as it is
_set_cached(key, data, ttl, env) ==
    IF ~redis \/ env.writeErr
    THEN cache
    ELSE {e \in cache : e.key # key}
             \cup {[key |-> key, data |-> JsonRoundTrip(data), left |-> ttl]}

\* What execute_tool does: the result (or the exception that escapes), the
\* cache afterwards and whether the tool body ran.
\* env.body is what the tool's execute does when it is entered:
\* return a success payload, return a failure, or raise.
Outcome(result, newCache, ran, raised) ==
    [result |-> result, cache |-> newCache, ran |-> ran, raised |-> raised]

RunBody(name, user_id, arguments, env) ==
    IF BindsTwice({"self", "user_id"}, arguments)
    THEN [result |-> ToolResult(FALSE, NoData, "TypeError", FALSE), ran |-> FALSE]
    ELSE CASE env.body.kind = "ok" ->
                  [result |-> ToolResult(TRUE, env.body.data, "None", FALSE), ran |-> TRUE]
           [] env.body.kind = "fail" ->
                  [result |-> ToolResult(FALSE, NoData, "tool_error", FALSE), ran |-> TRUE]
           [] env.body.kind = "raise" ->
                  [result |-> ToolResult(FALSE, NoData, "exception_text", FALSE), ran |-> TRUE]

\* Variant: every result of a cacheable tool is written to the cache
ShouldCache_AnyResult(result, useCache) == useCache

\* if result.success and tool.cacheable and self._redis
ShouldCache(result, useCache) == result.success /\ useCache

ExecuteAfterConsent(name, user_id, arguments, env) ==
    LET tool == ToolClass(name)
        key  == get_cache_key(name, user_id, arguments)
        useCache == tool.cacheable /\ redis
    IN  IF useCache /\ BindsTwice({"self", "user_id"}, arguments)
        THEN Outcome(ToolResult(FALSE, NoData, "TypeError", FALSE), cache, FALSE, TRUE)
        ELSE IF useCache /\ _get_cached(key, env) # NoData
        THEN Outcome(ToolResult(TRUE, _get_cached(key, env), "None", TRUE),
                     cache, FALSE, FALSE)
        ELSE LET run == RunBody(name, user_id, arguments, env) IN
             Outcome(run.result,
                     IF ShouldCache(run.result, useCache)
                     THEN _set_cached(key, run.result.data, tool.ttl, env)
                     ELSE cache,
                     run.ran, FALSE)

\* Variant: the cache is consulted before the consent check
execute_tool_CacheBeforeConsent(name, user_id, arguments, env) ==
    IF name \notin tools
    THEN Outcome(ToolResult(FALSE, NoData, "Unknown tool", FALSE), cache, FALSE, FALSE)
    ELSE IF redis /\ _get_cached(get_cache_key(name, user_id, arguments), env) # NoData
    THEN ExecuteAfterConsent(name, user_id, arguments, env)
    ELSE IF ToolClass(name).category = "external" /\ ~_has_consent(user_id, name)
    THEN Outcome(ToolResult(FALSE, NoData, "User consent required for external tool",
                            FALSE), cache, FALSE, FALSE)
    ELSE ExecuteAfterConsent(name, user_id, arguments, env)

execute_tool(name, user_id, arguments, env) ==
    IF name \notin tools
    THEN Outcome(ToolResult(FALSE, NoData, "Unknown tool", FALSE), cache, FALSE, FALSE)
    ELSE IF ToolClass(name).category = "external" /\ ~_has_consent(user_id, name)
    THEN Outcome(ToolResult(FALSE, NoData, "User consent required for external tool",
                            FALSE), cache, FALSE, FALSE)
    ELSE ExecuteAfterConsent(name, user_id, arguments, env)

(***************************************************************************)
(* Orchestrator and service: values                                        *)
(***************************************************************************)
\* Variant: one more round than the loop allows
max_iterations_OneMore == 5 + 1

\* for _ in range(max_iterations)
max_iterations == 5

\* Variant: a window of ten history messages
HISTORY_WINDOW_Ten == 5 + 5

HISTORY_WINDOW == 6

\* Variant: the history is cut only beyond 22 entries
HISTORY_KEEP_TwentyTwo == 20 + 2

HISTORY_KEEP == 20

\* Variant: the first n entries instead of the last
LastN_First(s, n) == IF Len(s) <= n THEN s ELSE SubSeq(s, 1, n)

\* s[-n:]
LastN(s, n) == IF Len(s) <= n THEN s ELSE SubSeq(s, Len(s) - n + 1, Len(s))

\* Message contents: a text, json.dumps of a tool payload, or "Error: <error>"
TextContent(t) == [kind |-> "text", text |-> t, val |-> ""]
JsonContent(d) == [kind |-> "json", text |-> NoneText, val |-> d.val]
ErrorContent(e) == [kind |-> "error", text |-> NoneText, val |-> e]

Message(role, content, tool_calls, name) ==
    [role |-> role, content |-> content, tool_calls |-> tool_calls, name |-> name,
     tool_call_id |-> "None"]

\* A tool call of a model response: its id, the function name and the
\* argument string
ToolCall(id, name, arguments) == [id |-> id, name |-> name, arguments |-> arguments]

\* Variant: the tool message does not carry the id of its request
ToolMessage_NoId(tool_call, result_content) ==
    Message("tool", result_content, <<>>, tool_call.name)

\* Message(role="tool", content=result_content, tool_call_id=tool_call_id,
\*         name=tool_name)
ToolMessage(tool_call, result_content) ==
    [Message("tool", result_content, <<>>, tool_call.name)
        EXCEPT !.tool_call_id = tool_call.id]

\* parse_tool_arguments: the parsed object; {} for JSON that is no object and
\* for text that is no JSON.
parse_tool_arguments(arguments_str) ==
    CASE arguments_str = "{}" -> {}
      [] arguments_str = "{\"self\": \"x\"}" -> {<<"self", "x">>}
      [] arguments_str = "{\"user_id\": \"x\"}" -> {<<"user_id", "x">>}
      [] arguments_str = "[1]" -> {}
      [] arguments_str = "not json" -> {}

\* A provider response
LLMResponse(content, tool_calls, finish_reason, tokens) ==
    [content |-> content, tool_calls |-> tool_calls,
     finish_reason |-> finish_reason, tokens |-> tokens]

NoResponse == LLMResponse(NoneText, <<>>, "None", 0)

\* not (not response.tool_calls or response.finish_reason != "tool_calls")
RequestsTools(response) ==
    response.tool_calls # <<>> /\ response.finish_reason = "tool_calls"

OrchestratorResult(response, tool_calls, tokens_used, finish_reason) ==
    [response |-> response, tool_calls |-> tool_calls, tokens_used |-> tokens_used,
     finish_reason |-> finish_reason]

NoResult == OrchestratorResult(NoneText, <<>>, 0, "None")

ApologyText == Fixed("apology_trouble_processing")

\* _build_messages: system prompt, the last six history messages, the user message
_build_messages(user_message, history) ==
    <<Message("system", TextContent(Fixed("system_prompt")), <<>>, "None")>>
    \o [k \in 1..Len(LastN(history, HISTORY_WINDOW)) |->
           Message(LastN(history, HISTORY_WINDOW)[k].role,
                   TextContent(LastN(history, HISTORY_WINDOW)[k].content), <<>>, "None")]
    \o <<Message("user", TextContent(user_message), <<>>, "None")>>

\* Variant: only a block short-circuits the turn
ShortCircuits_BlockOnly(input_check) ==
    Truthy(input_check.message) /\ input_check.action = "block"

\* Variant: no input check ends the turn
ShortCircuits_Never(input_check) == FALSE

\* input_check.message and input_check.action.value in ("block", "flag")
ShortCircuits(input_check) ==
    Truthy(input_check.message) /\ input_check.action \in {"block", "flag"}

\* The session update of chat and chat_stream
UpdateSession(s, message, final_response, tokens) ==
    [message_count |-> s.message_count + 2,
     tokens_used |-> s.tokens_used + tokens,
     conversation_history |->
         LastN(s.conversation_history
                  \o <<[role |-> "user", content |-> message],
                       [role |-> "assistant", content |-> final_response]>>,
               HISTORY_KEEP)]

\* What the caller receives: the ChatResponse of chat, the events of chat_stream
ChatResponse(message, tokens_used) ==
    [type |-> "response", data |-> message, tool |-> "None", tokens_used |-> tokens_used]
StreamEvent(type, data, tool) ==
    [type |-> type, data |-> data, tool |-> tool, tokens_used |-> 0]

\* The string the chunks of a stream add up to, by the features the chunks have
RECURSIVE Join(_)
Join(chunks) ==
    IF chunks = <<>> THEN EmptyText
    ELSE IF Len(chunks) = 1 THEN chunks[1]
    ELSE LET a == chunks[1]
             b == Join(Tail(chunks))
         IN [msg |-> "llm", ed |-> a.ed \/ b.ed,
             cal |-> IF a.cal # 0 THEN a.cal ELSE b.cal, lead |-> a.lead \/ b.lead,
             loss |-> IF a.loss # 0 THEN a.loss ELSE b.loss,
             unit |-> IF a.loss # 0 THEN a.unit ELSE b.unit,
             med |-> a.med \/ b.med, cond |-> a.cond \/ b.cond, disc |-> <<>>]

\* json.dumps(result.data) if result.success else f"Error: {result.error}"
ResultContent(result) ==
    IF result.success THEN JsonContent(result.data) ELSE ErrorContent(result.error)

\* _log_tool_call and the tool trace call tool.get_input_summary(**arguments)
\* when the tool is registered: a key named self collides with the receiver.
SummaryRaises(name, arguments) == name \in tools /\ BindsTwice({"self"}, arguments)

\* The per-turn locals
NoTurn ==
    [mode |-> "None", message |-> NoneText,
     ctx |-> [sex |-> "None", current_weight_kg |-> 0],
     input_check |-> Allow, output_check |-> Allow, checked |-> {},
     messages |-> <<>>, pending |-> <<>>, response |-> NoResponse,
     providerCalls |-> 0, toolExecs |-> 0, total_tokens |-> 0,
     accumulated |-> <<>>, tool_traces |-> <<>>, stream_calls |-> <<>>,
     last_tool |-> [name |-> "None", result |-> ToolResult(FALSE, NoData, "None", FALSE),
                    stage |-> "None", rest |-> 0],
     closing |-> <<>>, result |-> NoResult, plan |-> [daily_targets |-> "None", confidence |-> 0, fallback |-> FALSE,
              has_targets |-> FALSE],
     raised |-> "None"]

FreshSession == [message_count |-> 0, tokens_used |-> 0, conversation_history |-> <<>>]

(***************************************************************************)
(* Inputs                                                                  *)
(***************************************************************************)
CalMentions == {0, 800, 1300, 1600}
LossMentions == {0, 1, 3}

InputTexts ==
    {Txt("user", ed, cal, lead, loss, unit, med, cond) :
        ed \in BOOLEAN, cal \in CalMentions, lead \in BOOLEAN,
        loss \in LossMentions, unit \in {"kg", "lb"},
        med \in BOOLEAN, cond \in BOOLEAN}

OutputTexts ==
    {Txt("llm", ed, cal, FALSE, loss, unit, med, cond) :
        ed \in BOOLEAN, cal \in CalMentions,
        loss \in LossMentions, unit \in {"kg", "lb"},
        med \in BOOLEAN, cond \in BOOLEAN}

\* UserContext: sex and current_weight_kg (0 stands for None)
PolicyContexts ==
    {[sex |-> sx, current_weight_kg |-> w] :
        sx \in {"female", "male", "None"}, w \in {0, 60, 100}}

LogEnvs == {[session |-> a, addFails |-> b] : a \in BOOLEAN, b \in BOOLEAN}

ArgMaps == {{}, {<<"user_id", "x">>}, {<<"self", "x">>}}
RegistryArgMaps == {{}, {<<"user_id", "x">>}}

Bodies == {[kind |-> "ok", data |-> Data("d1")], [kind |-> "ok", data |-> Data("d2")],
           [kind |-> "fail", data |-> NoData], [kind |-> "raise", data |-> NoData]}

\* What a call meets: the tool body, a failing redis.get, a failing
\* redis.setex (setex is awaited only after a body that succeeded)
ToolEnvs ==
    {e \in [body : Bodies, readErr : BOOLEAN, writeErr : BOOLEAN] :
        e.writeErr => e.body.kind = "ok"}

(***************************************************************************)
(* Context builder                                                         *)
(***************************************************************************)
\* build_context(days=14); check-ins are looked at up to MaxDay days back.
LOOKBACK_DAYS == 14
MaxDay == 6

\* A nested snapshot that is None
Null == [null |-> TRUE]

\* Dates are days before date.today(); str(c.date) and date.fromisoformat
\* are inverse on ISO dates, and ISO strings sort as the dates do.
CoachContext ==
    [user_profile |-> Null, user_goal |-> Null, diet_preferences |-> Null,
     recent_checkins |-> <<>>, recent_nutrition |-> <<>>, weight_trend |-> Null,
     adherence_metrics |-> Null, calculated_targets |-> Null]

\* Variant: the relations are read without looking whether a user was found
UserFound_Unchecked(db) == TRUE

\* _load_user_data:  if not user: return
UserFound(db) == db.user # "none"

\* _load_user_data.  db.user: "none" no row; "bare" a row without relations;
\* "partial" a profile whose optional columns are empty; "full" profile, goal
\* and preferences.  Reading user.profile of None raises AttributeError.
_load_user_data(context, db) ==
    IF ~UserFound(db) THEN [context |-> context, raised |-> FALSE]
    ELSE IF db.user = "none" THEN [context |-> context, raised |-> TRUE]
    ELSE [context |->
             [context EXCEPT
                !.user_profile =
                    IF db.user \in {"partial", "full"}
                    THEN [null |-> FALSE, height_cm |-> db.user = "full",
                          sex |-> db.user = "full", activity_level |-> db.user = "full"]
                    ELSE Null,
                !.user_goal =
                    IF db.user = "full"
                    THEN [null |-> FALSE, target_weight_kg |-> TRUE, pace_preference |-> TRUE]
                    ELSE Null,
                !.diet_preferences =
                    IF db.user = "full" THEN [null |-> FALSE] ELSE Null],
          raised |-> FALSE]

\* The days of a set, most recent first, as ORDER BY date DESC gives them
RECURSIVE MostRecentFirst(_)
MostRecentFirst(S) ==
    IF S = {} THEN <<>>
    ELSE LET d == CHOOSE x \in S : \A y \in S : x <= y
         IN <<d>> \o MostRecentFirst(S \ {d})

\* _load_checkins: the rows of [today - days, today], most recent first,
\* at most days of them
_load_checkins(context, db, days) ==
    LET rows == MostRecentFirst({d \in db.checkins : d <= days})
        kept == SubSeq(rows, 1, IF Len(rows) < days THEN Len(rows) ELSE days)
    IN [context EXCEPT !.recent_checkins =
           [k \in 1..Len(kept) |-> [date |-> kept[k], weight_kg |-> db.weighed]]]

\* _load_weight_trend: calculate_weight_trend answers with empty figures when
\* no check-in of the period carries a weight
_load_weight_trend(context, db, days) ==
    LET points == IF db.weighed THEN Cardinality({d \in db.checkins : d <= days}) ELSE 0
    IN [context EXCEPT !.weight_trend =
           [null |-> FALSE, current_weight_kg |-> points > 0,
            weekly_rate_of_change_kg |-> points > 1, data_points |-> points]]

\* _load_nutrition
_load_nutrition(context, db, days) ==
    [context EXCEPT !.recent_nutrition = [k \in 1..db.nutrition |-> [date |-> k - 1]]]

\* sorted(recent_checkins, key=date, reverse=True): a stable insertion of
\* each record before the first one that is older
RECURSIVE sorted_reverse(_)
sorted_reverse(s) ==
    IF s = <<>> THEN <<>>
    ELSE LET rest == sorted_reverse(Tail(s))
             older == {k \in 1..Len(rest) : rest[k].date >= Head(s).date}
             at == IF older = {} THEN Len(rest) + 1
                   ELSE CHOOSE k \in older : \A j \in older : k <= j
         IN SubSeq(rest, 1, at - 1) \o <<Head(s)>> \o SubSeq(rest, at, Len(rest))

\* Variant: the walk starts at the most recent check-in
StreakStart_Latest(sorted_checkins) ==
    IF sorted_checkins = <<>> THEN 0 ELSE sorted_checkins[1].date

\* expected_date = date.today()
StreakStart(sorted_checkins) == 0

\* The streak loop from record i on
RECURSIVE StreakFrom(_, _, _)
StreakFrom(sorted_checkins, i, expected_date) ==
    IF i > Len(sorted_checkins) THEN 0
    ELSE IF sorted_checkins[i].date = expected_date
    THEN 1 + StreakFrom(sorted_checkins, i + 1, expected_date + 1)
    ELSE 0

\* round(count / days, 2) in hundredths, 0 when days is 0
Rate(count, days) == IF days > 0 THEN (count * 200 + days) \div (2 * days) ELSE 0

\* _load_adherence
_load_adherence(context, days) ==
    LET sorted_checkins == sorted_reverse(context.recent_checkins) IN
    [context EXCEPT !.adherence_metrics =
        [null |-> FALSE, days_analyzed |-> days,
         checkin_completion_rate |-> Rate(Len(context.recent_checkins), days),
         weight_logging_rate |->
             Rate(Cardinality({k \in 1..Len(context.recent_checkins) :
                                  context.recent_checkins[k].weight_kg}), days),
         nutrition_logging_rate |-> Rate(Len(context.recent_nutrition), days),
         current_streak |->
             StreakFrom(sorted_checkins, 1, StreakStart(sorted_checkins))]]

\* _load_targets: nothing without a profile or a current weight; a failing
\* calculation (an empty height) is caught and leaves None
_load_targets(context) ==
    LET current_weight ==
            IF ~context.weight_trend.null /\ context.weight_trend.current_weight_kg
            THEN TRUE
            ELSE \E k \in 1..Len(context.recent_checkins) :
                    context.recent_checkins[k].weight_kg
    IN  IF context.user_profile.null \/ ~current_weight THEN context
        ELSE [context EXCEPT !.calculated_targets =
                 IF context.user_profile.height_cm
                 THEN [null |-> FALSE, target_calories |-> TRUE]
                 ELSE Null]

\* build_context
build_context(db, opts) ==
    LET c1 == _load_user_data(CoachContext, db)
        c2 == _load_checkins(c1.context, db, opts.days)
        c3 == IF opts.include_weight_trend THEN _load_weight_trend(c2, db, opts.days) ELSE c2
        c4 == IF opts.include_nutrition THEN _load_nutrition(c3, db, opts.days) ELSE c3
        c5 == IF opts.include_adherence THEN _load_adherence(c4, opts.days) ELSE c4
        c6 == IF opts.include_targets THEN _load_targets(c5) ELSE c5
    IN  IF c1.raised THEN [context |-> CoachContext, raised |-> TRUE]
        ELSE [context |-> c6, raised |-> FALSE]

\* get_context_summary: the lines of the summary, by what they state
get_context_summary(context) ==
    (IF context.user_profile.null THEN <<>>
     ELSE <<"User Profile">>
          \o (IF context.user_profile.height_cm THEN <<"Height">> ELSE <<>>)
          \o (IF context.user_profile.sex THEN <<"Sex">> ELSE <<>>)
          \o (IF context.user_profile.activity_level THEN <<"Activity Level">> ELSE <<>>))
    \o (IF context.user_goal.null THEN <<>>
        ELSE <<"Goal">>
             \o (IF context.user_goal.target_weight_kg THEN <<"Target Weight">> ELSE <<>>)
             \o (IF context.user_goal.pace_preference THEN <<"Pace">> ELSE <<>>))
    \o (IF context.weight_trend.null THEN <<>>
        ELSE <<"Weight Trend:">>
             \o (IF context.weight_trend.current_weight_kg THEN <<"Current">> ELSE <<>>)
             \o (IF context.weight_trend.weekly_rate_of_change_kg THEN <<"Rate">> ELSE <<>>))
    \o (IF context.adherence_metrics.null THEN <<>>
        ELSE <<"Adherence:">>
             \o (IF context.adherence_metrics.checkin_completion_rate # 0
                 THEN <<"Check-in rate">> ELSE <<>>)
             \o (IF context.adherence_metrics.current_streak # 0
                 THEN <<"Current streak">> ELSE <<>>))

\* What the database holds for the user, and the options of the call
ContextDbs ==
    [user : {"none", "bare", "partial", "full"}, checkins : SUBSET (0..MaxDay),
     weighed : BOOLEAN, nutrition : {0, 2}]

ContextOptions ==
    [include_nutrition : BOOLEAN, include_weight_trend : BOOLEAN,
     include_adherence : BOOLEAN, include_targets : BOOLEAN, days : {LOOKBACK_DAYS}]

NotBuilt ==
    [stage |-> "idle",
     db |-> [user |-> "none", checkins |-> {}, weighed |-> FALSE, nutrition |-> 0],
     opts |-> [include_nutrition |-> TRUE, include_weight_trend |-> TRUE,
               include_adherence |-> TRUE, include_targets |-> TRUE,
               days |-> LOOKBACK_DAYS],
     context |-> CoachContext, raised |-> FALSE, summary |-> <<>>]

ContextIdle == built = NotBuilt

\* One call of build_context
BuildContext ==
    LET out == build_context(built.db, built.opts) IN
    /\ built.stage = "idle"
    /\ built' = [built EXCEPT !.stage = "built", !.context = out.context,
                              !.raised = out.raised]
    /\ UNCHANGED <<engineVars, registryVars, coachVars>>

\* One call of get_context_summary on the context built
Summarise ==
    /\ built.stage = "built" /\ ~built.raised
    /\ built' = [built EXCEPT !.stage = "summarised",
                              !.summary = get_context_summary(built.context)]
    /\ UNCHANGED <<engineVars, registryVars, coachVars>>

ContextNext == BuildContext \/ Summarise

(***************************************************************************)
(* Initial values of the three components                                  *)
(***************************************************************************)
\* The earlier call the history holds: its cache key, what it returned,
\* whether the tool body ran, whether the result was written to the cache,
\* and the ticks since.
NoWatch ==
    [key |-> <<"None", "None", {}>>, success |-> FALSE, data |-> NoData,
     ran |-> FALSE, wrote |-> FALSE, age |-> 0]

NoCall ==
    [name |-> "None", user |-> "None", arguments |-> {}, readErr |-> FALSE,
     result |-> ToolResult(FALSE, NoData, "None", FALSE),
     ran |-> FALSE, raised |-> FALSE, hadConsent |-> FALSE, first |-> NoWatch,
     cacheErr |-> FALSE, bare |-> ToolResult(FALSE, NoData, "None", FALSE)]

EngineIdle ==
    [op |-> "idle", policies |-> Policies, text |-> NoneText,
     ctx |-> [sex |-> "None", current_weight_kg |-> 0],
     env |-> [session |-> FALSE, addFails |-> FALSE],
     result |-> Allow, logs |-> <<>>, raised |-> FALSE]

EngineInit == eng = EngineIdle

\* The engine is handed a text, a user context and a logging environment.
EngineInputs ==
    eng \in {[EngineIdle EXCEPT !.text = t, !.ctx = c, !.env = e] :
                t \in InputTexts \cup OutputTexts, c \in PolicyContexts, e \in LogEnvs}

\* No load_user_consents_from_db call in flight, no consent check observed
NoObservation == [made |-> FALSE, seen |-> {}, before |-> {}, after |-> {}]
NoLoad ==
    [stage |-> "idle", target |-> {}, todo |-> <<>>, before |-> {},
     observed |-> NoObservation]

RegistryIdle ==
    /\ consents = [u \in Users |-> {}]
    /\ cache = {}
    /\ watch = NoWatch
    /\ lastCall = NoCall
    /\ loads = [u \in Users |-> NoLoad]

CoachIdle ==
    /\ pc = "idle"
    /\ turn = NoTurn
    /\ session = FreshSession
    /\ delivered = <<>>
    /\ auditLog = <<>>

(***************************************************************************)
(* Policy engine operations                                                *)
(***************************************************************************)
EngineCheckInput ==
    LET out == check_input(eng.text, eng.ctx, <<>>, eng.env) IN
    /\ eng.op = "idle" /\ eng.text.msg = "user"
    /\ eng' = [eng EXCEPT !.op = "check_input", !.result = out.result,
                          !.logs = out.logs, !.raised = out.raised]
    /\ UNCHANGED <<contextVars, registryVars, coachVars>>

EngineCheckOutput ==
    LET out == check_output(eng.text, eng.ctx, <<>>, eng.env) IN
    /\ eng.op = "idle" /\ eng.text.msg = "llm"
    /\ eng' = [eng EXCEPT !.op = "check_output", !.result = out.result,
                          !.logs = out.logs, !.raised = out.raised]
    /\ UNCHANGED <<contextVars, registryVars, coachVars>>

EngineNext == EngineCheckInput \/ EngineCheckOutput

InitEngine ==
    /\ EngineInputs /\ RegistryIdle /\ ContextIdle /\ CoachIdle
    /\ tools = {} /\ redis = FALSE

SpecEngine == InitEngine /\ [][EngineNext]_vars

\* check_output of an engine whose _policies is any list of three policy
\* objects of the four classes, two of one class included
PolicyLists ==
    {<<a, b, c>> : a \in {Policies[k] : k \in 1..Len(Policies)},
                   b \in {Policies[k] : k \in 1..Len(Policies)},
                   c \in {Policies[k] : k \in 1..Len(Policies)}}

DisclaimerContexts ==
    {[sex |-> sx, current_weight_kg |-> 0] : sx \in {"female", "male"}}

EngineCheckOutputOver ==
    LET out == CheckOutputOver(eng.policies, 1, eng.text, eng.text, <<>>,
                               eng.ctx, <<>>, eng.env) IN
    /\ eng.op = "idle" /\ eng.text.msg = "llm"
    /\ eng' = [eng EXCEPT !.op = "check_output", !.result = out.result,
                          !.logs = out.logs, !.raised = out.raised]
    /\ UNCHANGED <<contextVars, registryVars, coachVars>>

InitDisclaimers ==
    /\ eng \in {[EngineIdle EXCEPT !.policies = ps, !.text = t, !.ctx = c] :
                    ps \in PolicyLists, t \in OutputTexts, c \in DisclaimerContexts}
    /\ RegistryIdle /\ ContextIdle /\ CoachIdle
    /\ tools = {} /\ redis = FALSE

SpecDisclaimers == InitDisclaimers /\ [][EngineCheckOutputOver]_vars

(***************************************************************************)
(* Tool registry operations                                                *)
(***************************************************************************)
set_user_consent(user_id, tool_name) ==
    /\ consents' = [consents EXCEPT ![user_id] = @ \cup {tool_name}]
    /\ UNCHANGED <<contextVars, eng, tools, cache, redis, watch, lastCall, loads, coachVars>>

revoke_user_consent(user_id, tool_name) ==
    /\ consents' = [consents EXCEPT ![user_id] = @ \ {tool_name}]
    /\ UNCHANGED <<contextVars, eng, tools, cache, redis, watch, lastCall, loads, coachVars>>

\* granted: the consent types of the user's rows with granted and no revoked_at
load_user_consents_from_db(user_id, granted) ==
    /\ consents' = [consents EXCEPT ![user_id] =
                        {t \in DOMAIN TOOL_CONSENT_MAP : TOOL_CONSENT_MAP[t] \in granted}]
    /\ UNCHANGED <<contextVars, eng, tools, cache, redis, watch, lastCall, loads, coachVars>>

\* Variant: the coroutine is suspended between the clear and the refill
ReplaceSteps_ClearThenFill(target) == <<{}, target>>

\* The values _user_consents[user_id] takes at the points where another
\* coroutine can run, from the clear on: the clear and the refill loop hold no
\* await, so the first value another coroutine can see is the refilled set.
ReplaceSteps(target) == <<target>>

\* load_user_consents_from_db up to  await consent_service.get_user_consents:
\* the coroutine is suspended; granted is what the database will answer.
load_user_consents_call(user_id, granted) ==
    /\ loads[user_id].stage = "idle"
    /\ loads' = [loads EXCEPT ![user_id] =
                    [@ EXCEPT !.stage = "awaiting",
                              !.target = {t \in DOMAIN TOOL_CONSENT_MAP :
                                             TOOL_CONSENT_MAP[t] \in granted}]]
    /\ UNCHANGED <<contextVars, eng, tools, consents, cache, redis, watch, lastCall, coachVars>>

\* load_user_consents_from_db resumed: it runs to its next suspension point
\* or to its end.
load_user_consents_resume(user_id) ==
    LET l == loads[user_id]
        steps == IF l.stage = "awaiting" THEN ReplaceSteps(l.target) ELSE l.todo
    IN  /\ l.stage \in {"awaiting", "replacing"}
        /\ consents' = [consents EXCEPT ![user_id] = Head(steps)]
        /\ loads' = [loads EXCEPT ![user_id] =
                        [@ EXCEPT !.stage = IF Tail(steps) = <<>> THEN "idle"
                                            ELSE "replacing",
                                  !.todo = Tail(steps),
                                  !.before = IF l.stage = "awaiting"
                                             THEN consents[user_id] ELSE @]]
        /\ UNCHANGED <<contextVars, eng, tools, cache, redis, watch, lastCall, coachVars>>

\* A consent check of another coroutine for a user whose consents are being
\* loaded: what _user_consents.get(user_id, set()) gives it, with the set as
\* the load found it and the set the load leaves.
consent_check(user_id) ==
    LET l == loads[user_id] IN
    /\ l.stage # "idle"
    /\ loads' = [loads EXCEPT ![user_id] =
                    [@ EXCEPT !.observed =
                        [made |-> TRUE, seen |-> consents[user_id],
                         before |-> IF l.stage = "replacing" THEN l.before
                                    ELSE consents[user_id],
                         after |-> l.target]]]
    /\ UNCHANGED <<contextVars, eng, tools, consents, cache, redis, watch, lastCall, coachVars>>

\* The clock advances one tick: redis drops the entries whose time is up.
Tick ==
    /\ cache # {} \/ watch # NoWatch
    /\ cache' = {[e EXCEPT !.left = @ - 1] : e \in {x \in cache : x.left > 1}}
    /\ watch' = IF watch = NoWatch \/ watch.age + 1 >= ToolClass(watch.key[1]).ttl
                THEN NoWatch
                ELSE [watch EXCEPT !.age = @ + 1]
    /\ UNCHANGED <<contextVars, eng, tools, consents, redis, lastCall, loads, coachVars>>

\* One call of execute_tool.  The history keeps the call as the earlier
\* call of its key when it holds none, and hands the held call of the same
\* key to this one (first) for comparison.
ExecuteTool(name, user_id, arguments, env) ==
    LET out == execute_tool(name, user_id, arguments, env)
        key == get_cache_key(name, user_id, arguments)
        same == watch # NoWatch /\ watch.key = key
        \* the call reached the cache: redis.get was awaited and raised, or
        \* redis.setex was awaited and raised
        reached == /\ name \in tools /\ redis /\ ToolClass(name).cacheable
                   /\ (ToolClass(name).category = "external" => _has_consent(user_id, name))
                   /\ ~BindsTwice({"self", "user_id"}, arguments)
        readFailed  == reached /\ env.readErr
        writeFailed == reached /\ out.ran /\ out.result.success /\ env.writeErr
    IN  /\ cache' = out.cache
        /\ lastCall' =
              [name |-> name, user |-> user_id, arguments |-> arguments,
               readErr |-> env.readErr,
               result |-> out.result, ran |-> out.ran, raised |-> out.raised,
               hadConsent |-> _has_consent(user_id, name),
               first |-> IF same THEN watch ELSE NoWatch,
               cacheErr |-> readFailed \/ writeFailed,
               bare |-> IF readFailed \/ writeFailed
                        THEN RunBody(name, user_id, arguments, env).result
                        ELSE NoCall.bare]
        /\ watch' =
              IF (watch = NoWatch \/ same) /\ name \in tools /\ ~out.raised
              THEN [key |-> key, success |-> out.result.success,
                    data |-> out.result.data, ran |-> out.ran,
                    wrote |-> out.ran /\ out.result.success /\ redis /\ ~env.writeErr,
                    age |-> 0]
              ELSE watch
        /\ UNCHANGED <<contextVars, eng, tools, consents, redis, loads, coachVars>>

\* The registry's operations, called for the users U with the tool names N
\* and the argument maps A.
RegistryStep(U, N, A) ==
    \/ \E u \in U, t \in DOMAIN TOOL_CONSENT_MAP : set_user_consent(u, t)
    \/ \E u \in U, t \in DOMAIN TOOL_CONSENT_MAP : revoke_user_consent(u, t)
    \/ \E u \in U, g \in SUBSET ConsentTypes : load_user_consents_from_db(u, g)
    \/ Tick
    \/ \E n \in N, u \in U, a \in A, env \in ToolEnvs : ExecuteTool(n, u, a, env)

\* One user, an internal and an external tool, well-formed and colliding
\* argument maps.
RegistryNext ==
    RegistryStep({"u1"}, {"get_user_profile", "search_web"},
                 RegistryArgMaps)

InitRegistry ==
    /\ EngineInit /\ RegistryIdle /\ ContextIdle /\ CoachIdle
    /\ tools = {"get_user_profile", "search_web"}
    /\ redis \in BOOLEAN

SpecRegistry == InitRegistry /\ [][RegistryNext]_vars

\* Two users and the external tool.
ConsentNext == RegistryStep(Users, {"search_web"}, {{}})

InitConsent ==
    /\ EngineInit /\ RegistryIdle /\ ContextIdle /\ CoachIdle
    /\ tools = {"search_web"}
    /\ redis \in BOOLEAN

SpecConsent == InitConsent /\ [][ConsentNext]_vars

\* Coroutines of one event loop granting, revoking, loading and checking the
\* consents of two users.
ReloadNext ==
    \/ \E u \in Users, t \in DOMAIN TOOL_CONSENT_MAP : set_user_consent(u, t)
    \/ \E u \in Users, t \in DOMAIN TOOL_CONSENT_MAP : revoke_user_consent(u, t)
    \/ \E u \in Users, g \in SUBSET ConsentTypes : load_user_consents_call(u, g)
    \/ \E u \in Users : load_user_consents_resume(u)
    \/ \E u \in Users : consent_check(u)

InitReload ==
    /\ EngineInit /\ RegistryIdle /\ ContextIdle /\ CoachIdle
    /\ tools = {"search_web"}
    /\ redis = FALSE

SpecReload == InitReload /\ [][ReloadNext]_vars

\* build_context for every user the database can hold and every option
InitContext ==
    /\ built \in {[NotBuilt EXCEPT !.db = d, !.opts = o] :
                      d \in ContextDbs, o \in ContextOptions}
    /\ EngineInit /\ RegistryIdle /\ CoachIdle
    /\ tools = {} /\ redis = FALSE

SpecContext == InitContext /\ [][ContextNext]_vars

(***************************************************************************)
(* Service and orchestrator operations                                     *)
(***************************************************************************)
\* chat / chat_stream up to the input check: the safety message is returned
\* at once, or the messages for the model are built.
StartTurn(mode, message, ctx) ==
    LET chk == check_input(message, ctx, eng.logs, eng.env)
        t0  == [NoTurn EXCEPT !.mode = mode, !.message = message, !.ctx = ctx,
                              !.input_check = chk.result]
    IN  /\ pc = "idle"
        /\ eng' = [eng EXCEPT !.op = "check_input", !.text = message, !.ctx = ctx,
                              !.result = chk.result, !.logs = chk.logs]
        /\ IF ShortCircuits(chk.result)
           THEN /\ turn' = t0
                /\ delivered' =
                      IF mode = "chat"
                      THEN <<ChatResponse(chk.result.message, 0)>>
                      ELSE <<StreamEvent("token", chk.result.message, "None"),
                             StreamEvent("done", NoneText, "None")>>
                /\ pc' = "done"
           ELSE /\ turn' = [t0 EXCEPT !.messages =
                               _build_messages(message, session.conversation_history)]
                /\ delivered' = <<>>
                /\ pc' = IF mode = "chat" THEN "model" ELSE "stream"
        /\ UNCHANGED <<contextVars, registryVars, session, auditLog>>

chat(message, ctx) == StartTurn("chat", message, ctx)

chat_stream(message, ctx) == StartTurn("stream", message, ctx)

\* process_message: one provider.chat call of the loop and what follows it up
\* to the first tool call.  fails: the provider raises.
ProviderChat(response, fails) ==
    LET tokens == turn.total_tokens + response.tokens IN
    /\ pc = "model" /\ turn.providerCalls < max_iterations
    /\ IF fails
       THEN /\ turn' = [turn EXCEPT !.providerCalls = @ + 1, !.raised = "provider"]
            /\ pc' = "done"
       ELSE IF ~RequestsTools(response)
       THEN /\ turn' = [turn EXCEPT !.providerCalls = @ + 1, !.response = response,
                                    !.total_tokens = tokens,
                                    !.result = OrchestratorResult(
                                        PyOr(response.content, EmptyText),
                                        turn.tool_traces, tokens,
                                        response.finish_reason)]
            /\ pc' = "returned"
       ELSE /\ turn' = [turn EXCEPT !.providerCalls = @ + 1, !.response = response,
                                    !.total_tokens = tokens,
                                    !.pending = response.tool_calls,
                                    !.messages = Append(@,
                                        Message("assistant", TextContent(response.content),
                                                response.tool_calls, "None"))]
            /\ pc' = "tools"
    /\ UNCHANGED <<contextVars, eng, registryVars, session, delivered, auditLog>>

\* The body of the loop over the tool calls, up to the tool message:
\* parse_tool_arguments, execute_tool, _log_tool_call (which has no handler
\* of its own).  env.logFails: adding the audit row raises.
RunToolCall(tool_call, env) ==
    LET arguments == parse_tool_arguments(tool_call.arguments)
        out == execute_tool(tool_call.name, "u1", arguments, env)
    IN  [out |-> out,
         stage |-> IF out.raised THEN "execute"
                   ELSE IF SummaryRaises(tool_call.name, arguments) \/ env.logFails
                   THEN "log" ELSE "done",
         raised |-> IF out.raised \/ SummaryRaises(tool_call.name, arguments)
                    THEN "TypeError"
                    ELSE IF env.logFails THEN "log_failure" ELSE "None",
         row |-> [tool_name |-> tool_call.name,
                  status |-> IF out.result.success THEN "success" ELSE "failed",
                  cached |-> out.result.cached]]

\* process_message: one tool call of the round; after the last call of the
\* round the loop goes on to the next provider call, or ends with the apology.
ProcessToolCall(env) ==
    LET tool_call == Head(turn.pending)
        rest == Tail(turn.pending)
        run  == RunToolCall(tool_call, env)
        t1   == [turn EXCEPT !.toolExecs = @ + 1,
                             !.last_tool = [name |-> tool_call.name,
                                            result |-> run.out.result,
                                            stage |-> run.stage, rest |-> Len(rest)]]
        t2   == [t1 EXCEPT !.pending = rest,
                           !.tool_traces = Append(@, [name |-> tool_call.name,
                                                      cached |-> run.out.result.cached]),
                           !.messages = Append(@,
                               ToolMessage(tool_call, ResultContent(run.out.result)))]
    IN  /\ pc = "tools" /\ turn.pending # <<>>
        /\ cache' = run.out.cache
        /\ IF run.raised # "None"
           THEN /\ turn' = [t1 EXCEPT !.raised = run.raised]
                /\ auditLog' = auditLog
                /\ pc' = "done"
           ELSE /\ auditLog' = Append(auditLog, run.row)
                /\ IF rest # <<>>
                   THEN turn' = t2 /\ pc' = "tools"
                   ELSE IF turn.providerCalls < max_iterations
                   THEN turn' = t2 /\ pc' = "model"
                   ELSE /\ turn' = [t2 EXCEPT !.result = OrchestratorResult(
                                        ApologyText, t2.tool_traces, turn.total_tokens,
                                        "max_iterations")]
                        /\ pc' = "returned"
        /\ UNCHANGED <<contextVars, eng, tools, consents, redis, watch, lastCall, loads, session, delivered>>

\* chat after process_message has returned: the output check, the session
\* update and the ChatResponse.
ChatFinish ==
    LET chk == check_output(turn.result.response, turn.ctx, eng.logs, eng.env)
        final_response == PyOr(chk.result.modified_content, turn.result.response)
    IN  /\ pc = "returned" /\ turn.mode = "chat"
        /\ eng' = [eng EXCEPT !.op = "check_output", !.text = turn.result.response,
                              !.result = chk.result, !.logs = chk.logs]
        /\ turn' = [turn EXCEPT !.output_check = chk.result,
                                !.checked = @ \cup {turn.result.response}]
        /\ session' = UpdateSession(session, turn.message, final_response,
                                    turn.result.tokens_used)
        /\ delivered' = <<ChatResponse(final_response, turn.result.tokens_used)>>
        /\ pc' = "done"
        /\ UNCHANGED <<contextVars, registryVars, auditLog>>

\* registry.get_tool_definitions(user_id, include_external=False): the
\* definitions of the registered internal tools
get_tool_definitions == {t \in tools : ToolClass(t).category = "internal"}

\* One provider.chat_stream call: its tools argument (given: not None) and
\* the string chunks it yielded
StreamCall(definitions, chunks) ==
    [tools |-> [given |-> definitions # {}, names |-> definitions], chunks |-> chunks]

\* Variant: the tool loop is left after the first tool call
StreamToolsDone_AfterFirst(rest) == TRUE

\* for tool_call in accumulated_tool_calls: the loop ends with the last call
StreamToolsDone(rest) == rest = <<>>

Tokens(chunks) == [k \in 1..Len(chunks) |-> StreamEvent("token", chunks[k], "None")]

\* process_message_stream: the first provider.chat_stream; every string chunk
\* is forwarded as a token event as it arrives.
StreamFirst(chunks, tool_calls, fails) ==
    LET t1 == [turn EXCEPT !.providerCalls = @ + 1, !.accumulated = chunks,
                           !.stream_calls =
                               Append(@, StreamCall(get_tool_definitions, chunks))]
    IN
    /\ pc = "stream"
    /\ delivered' = delivered \o Tokens(chunks)
    /\ IF fails
       THEN turn' = [t1 EXCEPT !.raised = "provider"] /\ pc' = "done"
       ELSE IF tool_calls # <<>>
       THEN /\ turn' = [t1 EXCEPT !.pending = tool_calls,
                                  !.messages = Append(@,
                                      Message("assistant",
                                              TextContent(IF chunks # <<>> THEN Join(chunks)
                                                          ELSE NoneText),
                                              tool_calls, "None"))]
            /\ pc' = "stream_tools"
       ELSE turn' = t1 /\ pc' = "stream_end"
    /\ UNCHANGED <<contextVars, eng, registryVars, session, auditLog>>

\* process_message_stream: one tool call between its tool_start and tool_end
StreamToolCall(env) ==
    LET tool_call == Head(turn.pending)
        rest == Tail(turn.pending)
        run  == RunToolCall(tool_call, env)
        t1   == [turn EXCEPT !.toolExecs = @ + 1,
                             !.last_tool = [name |-> tool_call.name,
                                            result |-> run.out.result,
                                            stage |-> run.stage, rest |-> Len(rest)]]
    IN  /\ pc = "stream_tools" /\ turn.pending # <<>>
        /\ cache' = run.out.cache
        /\ IF run.raised # "None"
           THEN /\ turn' = [t1 EXCEPT !.raised = run.raised]
                /\ auditLog' = auditLog
                /\ delivered' = Append(delivered,
                                       StreamEvent("tool_start", NoneText, tool_call.name))
                /\ pc' = "done"
           ELSE /\ auditLog' = Append(auditLog, run.row)
                /\ turn' = [t1 EXCEPT !.pending = rest,
                                      !.messages = Append(@,
                                          ToolMessage(tool_call,
                                                      ResultContent(run.out.result)))]
                /\ delivered' = delivered \o
                                  <<StreamEvent("tool_start", NoneText, tool_call.name),
                                    StreamEvent("tool_end", NoneText, tool_call.name)>>
                /\ pc' = IF StreamToolsDone(rest) THEN "stream_final" ELSE "stream_tools"
        /\ UNCHANGED <<contextVars, eng, tools, consents, redis, watch, lastCall, loads, session>>

\* process_message_stream: the second provider.chat_stream, with tools = None
StreamSecond(chunks, fails) ==
    /\ pc = "stream_final"
    /\ delivered' = delivered \o Tokens(chunks)
    /\ turn' = [turn EXCEPT !.providerCalls = @ + 1,
                            !.stream_calls = Append(@, StreamCall({}, chunks)),
                            !.accumulated = @ \o chunks,
                            !.raised = IF fails THEN "provider" ELSE @]
    /\ pc' = IF fails THEN "done" ELSE "stream_end"
    /\ UNCHANGED <<contextVars, eng, registryVars, session, auditLog>>

\* chat_stream after the orchestrator's events are exhausted: the session update
StreamFinish ==
    /\ pc = "stream_end"
    /\ session' = UpdateSession(session, turn.message, Join(turn.accumulated), 0)
    /\ pc' = "done"
    /\ UNCHANGED <<contextVars, eng, registryVars, turn, delivered, auditLog>>

\* The router's event_generator around chat_stream: when the service's stream
\* is exhausted a done event follows; an exception of the stream is answered
\* with an error event instead.
event_generator ==
    /\ pc = "done" /\ turn.mode = "stream" /\ turn.closing = <<>>
    /\ turn' = [turn EXCEPT !.closing =
                    <<IF turn.raised = "None"
                      THEN StreamEvent("done", Fixed("status_complete"), "None")
                      ELSE StreamEvent("error", Fixed("exception_text"), "None")>>]
    /\ UNCHANGED <<contextVars, eng, registryVars, pc, session, delivered, auditLog>>

\* What the client of the stream endpoint has received
Streamed == delivered \o turn.closing

\* generate_plan.  content is what response.content holds: a JSON object with
\* or without daily_targets, JSON that is no object, text that is no JSON, or
\* None; has_targets: user_context.calculated_targets is non-empty.
\* Variant: the default plan of the parse failure is given a lower score
PlanConfidence_LowerOnFallback(has_targets, fallback) ==
    IF fallback THEN 30 ELSE IF has_targets THEN 80 ELSE 50

\* confidence=0.8 if user_context.calculated_targets else 0.5, in hundredths
PlanConfidence(has_targets, fallback) == IF has_targets THEN 80 ELSE 50

generate_plan(content, has_targets, fails) ==
    LET from_model == content = "object_with_targets"
        fallback == content = "not json"
        raised == IF fails THEN "provider"
                  ELSE IF content = "array" THEN "AttributeError" ELSE "None"
    IN  /\ pc = "idle"
        /\ turn' = [NoTurn EXCEPT
                      !.mode = "plan", !.providerCalls = 1, !.raised = raised,
                      !.plan = IF raised # "None" THEN @
                               ELSE [daily_targets |->
                                        IF from_model THEN "model"
                                        ELSE IF has_targets THEN "calculated"
                                        ELSE "defaults",
                                     confidence |->
                                        PlanConfidence(has_targets, fallback),
                                     fallback |-> fallback,
                                     has_targets |-> has_targets]]
        /\ pc' = "done"
        /\ UNCHANGED <<contextVars, eng, registryVars, session, delivered, auditLog>>

PlanContents == {"object_with_targets", "object_empty", "array", "not json", "None"}

\* The operations of a turn, for user messages M, contexts C, provider
\* responses R, stream chunk lists K, tool-call lists T and tool environments E.
CoachStep(M, C, R, K, T, E) ==
    \/ \E m \in M, c \in C : chat(m, c)
    \/ \E m \in M, c \in C : chat_stream(m, c)
    \/ \E r \in R, f \in BOOLEAN : ProviderChat(r, f)
    \/ \E env \in E : ProcessToolCall(env)
    \/ ChatFinish
    \/ \E ch \in K, tc \in T \cup {<<>>}, f \in BOOLEAN : StreamFirst(ch, tc, f)
    \/ \E env \in E : StreamToolCall(env)
    \/ \E ch \in K, f \in BOOLEAN : StreamSecond(ch, f)
    \/ StreamFinish
    \/ event_generator
    \/ \E k \in PlanContents, h \in BOOLEAN, f \in BOOLEAN : generate_plan(k, h, f)

\* Inputs of the turns
PlainUser == Fixed("user")
PlainReply == Fixed("llm")
CoachInputs ==
    {PlainUser,
     Txt("user", TRUE, 0, FALSE, 0, "kg", FALSE, FALSE),
     Txt("user", TRUE, 800, FALSE, 3, "kg", TRUE, FALSE),
     Txt("user", FALSE, 0, FALSE, 0, "kg", TRUE, FALSE),
     Txt("user", FALSE, 800, FALSE, 0, "kg", FALSE, FALSE),
     Txt("user", FALSE, 0, FALSE, 0, "kg", FALSE, TRUE)}

CoachContexts == {[sex |-> "female", current_weight_kg |-> 60],
                  [sex |-> "None", current_weight_kg |-> 0]}

ReplyTexts ==
    {PlainReply, NoneText,
     Txt("llm", TRUE, 0, FALSE, 0, "kg", FALSE, FALSE),
     Txt("llm", FALSE, 0, FALSE, 0, "kg", TRUE, FALSE),
     Txt("llm", FALSE, 800, FALSE, 0, "kg", FALSE, TRUE),
     Txt("llm", FALSE, 0, FALSE, 0, "kg", FALSE, TRUE)}

ProfileCall == <<ToolCall("call_1", "get_user_profile", "{}")>>
UnknownThenProfile ==
    <<ToolCall("call_1", "unknown_tool", "[1]"),
      ToolCall("call_2", "get_user_profile", "not json")>>
SelfKeyCall == <<ToolCall("call_1", "get_user_profile", "{\"self\": \"x\"}")>>
UserIdKeyCall == <<ToolCall("call_1", "get_user_profile", "{\"user_id\": \"x\"}")>>

CoachResponses ==
    {LLMResponse(t, <<>>, "stop", 2) : t \in ReplyTexts}
        \cup {LLMResponse(NoneText, ProfileCall, "tool_calls", 2),
              LLMResponse(PlainReply, ProfileCall, "length", 2)}

CoachChunks ==
    {<<>>, <<PlainReply>>,
     <<PlainReply, Txt("llm", TRUE, 0, FALSE, 0, "kg", FALSE, FALSE)>>}

CoachEnvs ==
    {[body |-> [kind |-> "ok", data |-> Data("d1")], readErr |-> FALSE,
      writeErr |-> FALSE, logFails |-> FALSE]}

CoachNext ==
    CoachStep(CoachInputs, CoachContexts, CoachResponses, CoachChunks,
              {ProfileCall}, CoachEnvs)

\* Six earlier rounds, every entry with a content of its own
EarlierContents ==
    <<"h01", "h02", "h03", "h04", "h05", "h06",
      "h07", "h08", "h09", "h10", "h11", "h12">>

EarlierRounds ==
    [k \in 1..Len(EarlierContents) |->
        [role |-> IF k % 2 = 1 THEN "user" ELSE "assistant",
         content |-> Fixed(EarlierContents[k])]]

\* The history lengths a turn starts with
HistoryLengths == {0, 1, 6, 7, 12}

InitialSessions ==
    {[message_count |-> n, tokens_used |-> n,
      conversation_history |-> SubSeq(EarlierRounds, 1, n)] : n \in HistoryLengths}

\* CoachService builds its orchestrator without a redis client.
InitCoach ==
    /\ eng \in {[EngineIdle EXCEPT !.env = e] :
                   e \in {x \in LogEnvs : x.session}}
    /\ RegistryIdle /\ ContextIdle
    /\ tools = {"get_user_profile", "get_recent_checkins"}
    /\ redis = FALSE
    /\ pc = "idle" /\ turn = NoTurn /\ delivered = <<>> /\ auditLog = <<>>
    /\ session \in InitialSessions

SpecCoach == InitCoach /\ [][CoachNext]_vars

\* The orchestrator on a plain message, with the tool calls a model can ask for
OrchestratorResponses ==
    {LLMResponse(PlainReply, <<>>, "stop", 2), LLMResponse(NoneText, <<>>, "stop", 2),
     LLMResponse(PlainReply, ProfileCall, "length", 2)}
        \cup {LLMResponse(NoneText, tc, "tool_calls", 2) :
                 tc \in {ProfileCall, UnknownThenProfile, SelfKeyCall, UserIdKeyCall}}

OrchestratorEnvs ==
    {[body |-> b, readErr |-> FALSE, writeErr |-> FALSE, logFails |-> l] :
        b \in {x \in Bodies : x.data # Data("d2")}, l \in BOOLEAN}

OrchestratorNext ==
    CoachStep({PlainUser}, {[sex |-> "female", current_weight_kg |-> 60]},
              OrchestratorResponses, {<<>>, <<PlainReply>>},
              {ProfileCall, UnknownThenProfile, SelfKeyCall, UserIdKeyCall},
              OrchestratorEnvs)

InitOrchestrator ==
    /\ eng = [EngineIdle EXCEPT !.env = [session |-> TRUE, addFails |-> FALSE]]
    /\ RegistryIdle /\ ContextIdle
    /\ tools = {"get_user_profile", "get_recent_checkins"}
    /\ redis \in BOOLEAN
    /\ pc = "idle" /\ turn = NoTurn /\ delivered = <<>> /\ auditLog = <<>>
    /\ session = FreshSession

SpecOrchestrator == InitOrchestrator /\ [][OrchestratorNext]_vars

\* The turns of one session, request after request
MaxTurns == 12

\* A further request with the same session_id: _get_or_create_session returns
\* the stored session; the service, its policy engine and the locals are new.
NextRequest ==
    /\ pc = "done" /\ session.message_count < 2 * MaxTurns
    /\ pc' = "idle"
    /\ turn' = NoTurn
    /\ delivered' = <<>>
    /\ eng' = [EngineIdle EXCEPT !.env = eng.env]
    /\ UNCHANGED <<contextVars, registryVars, session, auditLog>>

SessionInputs == {PlainUser, Txt("user", TRUE, 0, FALSE, 0, "kg", FALSE, FALSE)}
SessionContext == [sex |-> "female", current_weight_kg |-> 60]
SessionResponses ==
    {LLMResponse(PlainReply, <<>>, "stop", 2),
     LLMResponse(Txt("llm", FALSE, 0, FALSE, 0, "kg", TRUE, FALSE), <<>>, "stop", 2)}

SessionNext ==
    \/ \E m \in SessionInputs : chat(m, SessionContext)
    \/ \E m \in SessionInputs : chat_stream(m, SessionContext)
    \/ \E r \in SessionResponses, f \in BOOLEAN : ProviderChat(r, f)
    \/ ChatFinish
    \/ \E f \in BOOLEAN : StreamFirst(<<PlainReply>>, <<>>, f)
    \/ StreamFinish
    \/ NextRequest

InitSession ==
    /\ eng = [EngineIdle EXCEPT !.env = [session |-> TRUE, addFails |-> FALSE]]
    /\ RegistryIdle /\ ContextIdle
    /\ tools = {"get_user_profile", "get_recent_checkins"}
    /\ redis = FALSE
    /\ pc = "idle" /\ turn = NoTurn /\ delivered = <<>> /\ auditLog = <<>>
    /\ session = FreshSession

SpecSession == InitSession /\ [][SessionNext]_vars

(***************************************************************************)
(* Properties                                                              *)
(***************************************************************************)
LastKey == get_cache_key(lastCall.name, lastCall.user, lastCall.arguments)
LastIsExternal ==
    lastCall.name \in tools /\ ToolClass(lastCall.name).category = "external"

\* C5: for every input that matches an eating-disorder keyword or phrase,
\* check_input returns passed = false, action = flag and the crisis-resource
\* message, whatever else the input matches.
C5_EatingDisorderFlagWins ==
    (eng.op = "check_input" /\ eng.text.ed) =>
        /\ ~eng.result.passed
        /\ eng.result.action = "flag"
        /\ eng.result.message.msg = "ed_support_message"

C5_Witness ==
    /\ eng.op = "check_input" /\ eng.text.ed /\ eng.text.med
    /\ eng.text.cal = 800 /\ eng.text.loss = 3
    /\ eng.result.action = "flag"

\* C6: execute_tool on an external tool for a user without consent returns a
\* failure; the tool body does not run and no cached payload is returned.
C6_NoConsentNoExecution ==
    (LastIsExternal /\ ~lastCall.hadConsent) =>
        /\ ~lastCall.result.success
        /\ ~lastCall.result.cached
        /\ lastCall.result.data = NoData
        /\ ~lastCall.ran
        /\ ~lastCall.raised

\* a refused call while a payload of that tool, user and arguments is cached
C6_Witness ==
    /\ LastIsExternal /\ ~lastCall.hadConsent
    /\ CacheEntry(LastKey) # {}
    /\ lastCall.result.error = "User consent required for external tool"

C9_ExecuteToolNeverRaises ==
    /\ ~lastCall.raised
    /\ (lastCall.name # "None" /\ lastCall.name \notin tools) =>
           (~lastCall.result.success /\ lastCall.result.error = "Unknown tool")

\* The texts the caller has received: the message of a ChatResponse and the
\* data of the token events
DeliveredTexts ==
    {delivered[k].data : k \in {j \in 1..Len(delivered) :
                                   delivered[j].type \in {"response", "token"}}}

\* C1: when check_output returns action = block for the model's response,
\* chat does not return that response text as its reply.
C1_BlockedOutputNotReturned ==
    (pc = "done" /\ turn.mode = "chat" /\ turn.output_check.action = "block") =>
        turn.result.response \notin DeliveredTexts

\* C2: when check_input returns block or flag with a non-null message, the
\* turn returns exactly that message with tokens_used = 0, and the turn makes
\* no provider call and executes no tool.
C2_ShortCircuitSkipsModel ==
    (/\ turn.mode \in {"chat", "stream"}
     /\ turn.input_check.action \in {"block", "flag"}
     /\ Truthy(turn.input_check.message)) =>
        /\ pc = "done" /\ turn.raised = "None"
        /\ turn.providerCalls = 0 /\ turn.toolExecs = 0
        /\ DeliveredTexts = {turn.input_check.message}
        /\ \A k \in 1..Len(delivered) : delivered[k].tokens_used = 0
        /\ delivered[1].data = turn.input_check.message
        /\ Len(delivered) = IF turn.mode = "chat" THEN 1 ELSE 2

C2_Witness ==
    /\ turn.mode = "chat" /\ turn.message.ed /\ turn.message.cal = 800
    /\ turn.input_check.action = "flag"
    /\ delivered = <<ChatResponse(EDSupportMessage, 0)>>
    /\ turn.providerCalls = 0

\* C3: every model-generated text delivered to the caller, by chat or by
\* chat_stream, has been passed through check_output.
C3_DeliveredTextWasChecked ==
    \A t \in DeliveredTexts :
        t.msg = "llm" => [t EXCEPT !.disc = <<>>] \in turn.checked

\* C4: process_message makes at most 5 provider calls; when the 5th response
\* still requests tools it returns the fixed apology with the max-iterations
\* finish reason.
C4_AtMostFiveProviderCalls ==
    turn.mode = "chat" =>
        /\ turn.providerCalls <= 5
        /\ (/\ pc \in {"returned", "done"} /\ turn.raised = "None"
            /\ turn.providerCalls = 5 /\ RequestsTools(turn.response)) =>
               /\ turn.result.response = ApologyText
               /\ turn.result.finish_reason = "max_iterations"

C4_Witness ==
    /\ pc = "returned" /\ turn.mode = "chat"
    /\ turn.providerCalls = 5 /\ turn.toolExecs >= 5
    /\ RequestsTools(turn.response)
    /\ turn.result.finish_reason = "max_iterations"

\* C8: only a provider failure escapes process_message, process_message_stream
\* and generate_plan; tool failures, malformed model output and audit-logging
\* failures end in a normal result.
C8_OnlyProviderFailuresEscape == turn.raised \in {"None", "provider"}

\* C10: a tool call that failed does not abort process_message: its tool
\* message "Error: <message>" is appended, the remaining calls of the round
\* are executed and the loop goes on.
C10_FailingToolNeverAborts ==
    (/\ turn.mode = "chat" /\ turn.last_tool.stage \in {"log", "done"}
     /\ ~turn.last_tool.result.success) =>
        /\ turn.raised = "None"
        /\ \E k \in 1..Len(turn.messages) :
              /\ turn.messages[k].role = "tool"
              /\ turn.messages[k].name = turn.last_tool.name
              /\ turn.messages[k].content = ErrorContent(turn.last_tool.result.error)
        /\ turn.last_tool.rest > 0 =>
              (pc = "tools" /\ Len(turn.pending) = turn.last_tool.rest)

\* The tool messages that answer the assistant message at index i
AnsweredInOrder(messages, i) ==
    LET calls == messages[i].tool_calls IN
    /\ i + Len(calls) <= Len(messages)
    /\ \A j \in 1..Len(calls) :
          /\ messages[i + j].role = "tool"
          /\ messages[i + j].tool_call_id = calls[j].id
          /\ messages[i + j].name = calls[j].name
    /\ i + Len(calls) < Len(messages) => messages[i + Len(calls) + 1].role # "tool"

MessagesWellOrdered ==
    (pc = "model" /\ turn.providerCalls >= 1) =>
        \A i \in 1..Len(turn.messages) :
            turn.messages[i].role = "assistant" => AnsweredInOrder(turn.messages, i)

MessagesOnlyAppended ==
    turn.messages # <<>> =>
        /\ Len(turn'.messages) >= Len(turn.messages)
        /\ SubSeq(turn'.messages, 1, Len(turn.messages)) = turn.messages

\* C11: at every model call after a tool round, each assistant message with N
\* tool calls is directly followed by exactly N tool messages, in the order
\* requested, each carrying the id of its own request; messages already in
\* the array are never reordered or removed.
C11_ToolMessagesFollowRequests ==
    []MessagesWellOrdered /\ [][MessagesOnlyAppended]_vars

C11_Witness ==
    /\ pc = "model" /\ turn.providerCalls = 2
    /\ Len(turn.messages) = 7
    /\ turn.messages[3].tool_calls = UnknownThenProfile
    /\ turn.messages[4].tool_call_id = "call_1" /\ turn.messages[5].tool_call_id = "call_2"
    /\ turn.messages[6].tool_calls = ProfileCall
    /\ turn.messages[7].role = "tool"

\* process_message has returned a result
Returned == pc = "returned" \/ (pc = "done" /\ turn.raised = "None")

\* every call of the last response has its tool message at the end of the array
LastRoundExecuted ==
    /\ turn.pending = <<>>
    /\ Len(turn.messages) > Len(turn.response.tool_calls)
    /\ turn.messages[Len(turn.messages) - Len(turn.response.tool_calls)].tool_calls
           = turn.response.tool_calls
    /\ AnsweredInOrder(turn.messages,
                       Len(turn.messages) - Len(turn.response.tool_calls))

ReturnedThatResponse ==
    /\ Returned
    /\ turn.result.response = IF Truthy(turn.response.content)
                              THEN turn.response.content ELSE EmptyText
    /\ turn.result.finish_reason = turn.response.finish_reason
    /\ turn.result.tool_calls = turn.tool_traces
    /\ Len(turn.tool_traces) = turn.toolExecs

\* C12 as stated: a response without tool calls is returned at once with its
\* content, the trace so far and the provider's finish reason; when the
\* response carries tool calls, every one of them is executed before
\* process_message returns.
C12_ToolRequestsAlwaysExecuted ==
    (turn.mode = "chat" /\ turn.response # NoResponse) =>
        /\ turn.response.tool_calls = <<>> => ReturnedThatResponse
        /\ (turn.response.tool_calls # <<>> /\ Returned) => LastRoundExecuted

\* The messages as _build_messages left them, and the history it was given
JustBuilt == pc \in {"model", "stream"} /\ turn.providerCalls = 0
HistoryGiven == session.conversation_history
HistoryShown == IF Len(HistoryGiven) < 6 THEN Len(HistoryGiven) ELSE 6

InputAnswer(i) == PolicyCheckInput(Policies[i], eng.text, eng.ctx)
InputStops(i) ==
    /\ ~InputAnswer(i).passed
    /\ InputAnswer(i).action \in {"block", "flag"}
    /\ InputAnswer(i).message.msg \notin {"None", ""}

\* C15: a policy answering modify never ends check_input: the engine goes on
\* to the later policies and returns passed = true with action allow, unless
\* a later policy answers block or flag with a message, whose answer is
\* returned instead.
C15_ModifyNeverShortCircuits ==
    eng.op = "check_input" =>
        \A i \in 1..Len(Policies) :
            (InputAnswer(i).action = "modify" /\ \A j \in 1..(i - 1) : ~InputStops(j)) =>
                IF \E j \in (i + 1)..Len(Policies) : InputStops(j)
                THEN \E j \in (i + 1)..Len(Policies) :
                        /\ InputStops(j) /\ eng.result = InputAnswer(j)
                        /\ \A k \in (i + 1)..(j - 1) : ~InputStops(k)
                ELSE eng.result.passed /\ eng.result.action = "allow"

C15_Witness ==
    /\ eng.op = "check_input"
    /\ InputAnswer(2).action = "modify" /\ Truthy(InputAnswer(2).message)
    /\ InputAnswer(3).action = "modify"
    /\ \A j \in 1..Len(Policies) : ~InputStops(j)
    /\ eng.result.passed /\ eng.result.action = "allow"

\* The disclaimer the k-th policy of the engine's list emits for the text it
\* was handed ("None" for none), and the disclaimers the returned text ends with
Emitted(k) == PolicyCheckOutput(eng.policies[k], eng.text, eng.ctx).disclaimer
Appended ==
    IF eng.result.modified_content = NoneText THEN <<>>
    ELSE eng.result.modified_content.disc
FirstEmitter(d) ==
    CHOOSE k \in 1..Len(eng.policies) :
        Emitted(k) = d /\ \A j \in 1..(k - 1) : Emitted(j) # d

\* C16: when check_output is not blocked, every disclaimer some policy emits
\* occurs exactly once in the returned text, also when two policies emit the
\* same one; nothing else is appended, and the disclaimers stand in the order
\* in which they were first met.
C16_EachDisclaimerOnceInOrder ==
    (eng.op = "check_output" /\ eng.result.action = "allow") =>
        /\ \A k \in 1..Len(eng.policies) :
              Emitted(k) # "None" =>
                  Cardinality({j \in 1..Len(Appended) : Appended[j] = Emitted(k)}) = 1
        /\ \A j \in 1..Len(Appended) :
              \E k \in 1..Len(eng.policies) : Appended[j] = Emitted(k)
        /\ \A a, b \in 1..Len(Appended) :
              a < b => FirstEmitter(Appended[a]) < FirstEmitter(Appended[b])

C16_Witness ==
    /\ eng.op = "check_output"
    /\ eng.policies = <<"medical_claims", "calorie", "medical_claims">>
    /\ Emitted(1) = "medical_disclaimer" /\ Emitted(3) = "medical_disclaimer"
    /\ Appended = <<"medical_disclaimer", "calorie_below_1500_disclaimer">>

\* C17: for every numeric calorie mention below the sex-specific minimum
\* (1200 for a female user, 1500 otherwise) the calorie policy answers
\* modify, on input with a message and on output with a disclaimer naming
\* the threshold used.
C17_LowCaloriesAlwaysModified ==
    (eng.op # "idle" /\ eng.text.cal > 0
       /\ eng.text.cal < (IF eng.ctx.sex = "female" THEN 1200 ELSE 1500)) =>
        /\ eng.op = "check_input" =>
              /\ CalorieCheckInput(eng.text, eng.ctx).action = "modify"
              /\ CalorieCheckInput(eng.text, eng.ctx).message.msg =
                    (IF eng.ctx.sex = "female" THEN "calorie_below_1200_message"
                     ELSE "calorie_below_1500_message")
        /\ eng.op = "check_output" =>
              /\ CalorieCheckOutput(eng.text, eng.ctx).action = "modify"
              /\ CalorieCheckOutput(eng.text, eng.ctx).disclaimer =
                    (IF eng.ctx.sex = "female" THEN "calorie_below_1200_disclaimer"
                     ELSE "calorie_below_1500_disclaimer")

\* The weekly loss a text asks for, in millionths of a kilogram: pounds are
\* converted, kilograms are taken as written
RequestedKgMicro ==
    IF eng.text.unit = "lb" THEN eng.text.loss * 453592 ELSE eng.text.loss * 1000000

\* C18: the weight-loss policy answers modify to an input exactly when the
\* requested weekly loss in kilograms exceeds 1% of the body weight times
\* 1.5, or 1 kg when the weight is unknown.
C18_ModifyExactlyAboveSafeRate ==
    (eng.op = "check_input" /\ eng.text.loss > 0) =>
        (WeightLossCheckInput(eng.text, eng.ctx).action = "modify"
           <=> IF eng.ctx.current_weight_kg # 0
               THEN RequestedKgMicro > eng.ctx.current_weight_kg * 15000
               ELSE RequestedKgMicro > 1000000)

\* The tool round of a stream: the assistant message with the requested
\* calls is followed by the tool message of every one of them, and nothing
\* is left to execute
StreamRoundExecuted ==
    /\ turn.pending = <<>>
    /\ \E i \in 1..Len(turn.messages) :
          /\ turn.messages[i].role = "assistant" /\ turn.messages[i].tool_calls # <<>>
          /\ AnsweredInOrder(turn.messages, i)
          /\ i + Len(turn.messages[i].tool_calls) = Len(turn.messages)
          /\ turn.toolExecs = Len(turn.messages[i].tool_calls)

\* The events delivered end with one token event for every chunk of the
\* last stream call, in order
LastChunksForwarded ==
    LET ch == turn.stream_calls[Len(turn.stream_calls)].chunks
        n  == Len(delivered) - Len(ch)
    IN  /\ n >= 0
        /\ \A k \in 1..Len(ch) :
              delivered[n + k].type = "token" /\ delivered[n + k].data = ch[k]

\* C19: process_message_stream makes at most two model stream calls; the
\* second is made without tools, only after every tool call requested in the
\* first has been executed, and its text is forwarded as token events.
C19_OneToolRoundWhenStreaming ==
    turn.mode = "stream" =>
        /\ turn.providerCalls <= 2
        /\ Len(turn.stream_calls) = turn.providerCalls
        /\ turn.providerCalls = 2 =>
              /\ ~turn.stream_calls[2].tools.given
              /\ StreamRoundExecuted
              /\ LastChunksForwarded

C19_Witness ==
    /\ turn.mode = "stream" /\ turn.providerCalls = 2 /\ turn.raised = "None"
    /\ turn.stream_calls[1].tools.given
    /\ turn.toolExecs = 2
    /\ turn.stream_calls[2].chunks = <<PlainReply>>
    /\ delivered[Len(delivered)].type = "token"

\* C20: a cache read or write error never reaches the caller of
\* execute_tool: the call does not raise, the tool body runs on a read error,
\* and the result is the one the same call gives with no cache backend.
C20_CacheErrorsNeverSurface ==
    lastCall.cacheErr =>
        /\ ~lastCall.raised
        /\ lastCall.readErr => (lastCall.ran /\ ~lastCall.result.cached)
        /\ lastCall.result = lastCall.bare

C20_Witness ==
    /\ lastCall.cacheErr /\ lastCall.readErr
    /\ lastCall.first # NoWatch /\ lastCall.first.wrote
    /\ LastKey \in {e.key : e \in cache}
    /\ lastCall.ran /\ lastCall.result.success /\ ~lastCall.result.cached

\* The environment in which every add of a violation row succeeds
LoggingWorks == [session |-> TRUE, addFails |-> FALSE]

\* Whether some policy of the engine fails on the text it was handed
SomePolicyFails ==
    \E k \in 1..Len(Policies) :
        IF eng.op = "check_input"
        THEN ~PolicyCheckInput(Policies[k], eng.text, eng.ctx).passed
        ELSE ~PolicyCheckOutput(Policies[k], eng.text, eng.ctx).passed

\* C21: when adding the violation row fails, nothing is raised out of
\* check_input or check_output and the PolicyResult returned is the one
\* returned when the row is added successfully.
C21_LoggingFailureIsSwallowed ==
    (eng.op # "idle" /\ eng.env.session /\ eng.env.addFails) =>
        /\ ~eng.raised
        /\ eng.op = "check_input" =>
              eng.result = check_input(eng.text, eng.ctx, <<>>, LoggingWorks).result
        /\ eng.op = "check_output" =>
              eng.result = check_output(eng.text, eng.ctx, <<>>, LoggingWorks).result

C21_Witness ==
    /\ eng.op = "check_input" /\ eng.env.session /\ eng.env.addFails
    /\ SomePolicyFails /\ eng.text.ed
    /\ eng.logs = <<>> /\ ~eng.raised
    /\ eng.result.action = "flag"
    /\ check_input(eng.text, eng.ctx, <<>>, LoggingWorks).logs # <<>>

\* C22: a consent check that runs while the user's consents are being
\* granted, revoked or loaded sees the set as it was before the change or as
\* it is after it, never a transient empty or partly refilled set.
C22_NoTornConsentSet ==
    \A u \in Users :
        loads[u].observed.made =>
            loads[u].observed.seen \in {loads[u].observed.before, loads[u].observed.after}

C22_Witness ==
    \E u \in Users :
        /\ loads[u].stage = "idle"
        /\ loads[u].before = {"search_web"} /\ loads[u].target = {"search_web"}
        /\ consents[u] = {"search_web"}
        /\ loads[u].observed.made /\ loads[u].observed.seen = {"search_web"}

\* The user has no profile, goal, preferences, check-ins or nutrition records
NothingOnRecord ==
    /\ built.stage # "idle"
    /\ built.db.user \in {"none", "bare"}
    /\ built.db.checkins = {} /\ built.db.nutrition = 0

CheckinDays ==
    {built.context.recent_checkins[k].date : k \in 1..Len(built.context.recent_checkins)}

TokenData(events) ==
    LET tokens == SelectSeq(events, LAMBDA ev : ev.type = "token")
    IN  [k \in 1..Len(tokens) |-> tokens[k].data]

\* The reply the caller received in the turn that ends in this step
ReplyReceived ==
    IF turn.mode = "chat" THEN delivered'[1].data ELSE Join(TokenData(delivered'))

\* The orchestrator has answered and the service finishes the turn
TurnCompletes == pc \in {"returned", "stream_end"} /\ pc' = "done"

\* C25: after every completed chat turn, over any number of turns of a
\* session, the conversation history holds at most 20 entries: the turn's
\* user message and the assistant reply at the end, before them the most
\* recent earlier entries in their original order.
C25_HistoryKeepsLastTwenty ==
    /\ [](Len(session.conversation_history) <= 20)
    /\ [][TurnCompletes =>
            LET before == session.conversation_history
                after  == session'.conversation_history
                n      == Len(after)
                kept   == n - 2
            IN  /\ n = IF Len(before) + 2 <= 20 THEN Len(before) + 2 ELSE 20
                /\ after[n - 1] = [role |-> "user", content |-> turn.message]
                /\ after[n] = [role |-> "assistant", content |-> ReplyReceived]
                /\ \A k \in 1..kept : after[k] = before[Len(before) - kept + k]]_vars

C25_Witness ==
    /\ pc = "done" /\ turn.raised = "None" /\ ~ShortCircuits(turn.input_check)
    /\ turn.mode = "stream"
    /\ session.message_count = 24
    /\ Len(session.conversation_history) = 20
    /\ session.conversation_history[1].content # session.conversation_history[2].content

\* The tool calls of the turn that execute_tool answered with a ToolResult
ToolCallsAnswered ==
    turn.toolExecs - (IF turn.last_tool.stage = "execute" THEN 1 ELSE 0)

\* C26: each tool call executed in a turn, whether it succeeded, failed or was
\* served from the cache, has added exactly one audit-log entry, and the
\* entries added earlier stay as they were.
C26_OneAuditEntryPerToolCall ==
    /\ [](Len(auditLog) = ToolCallsAnswered)
    /\ [][/\ Len(auditLog') >= Len(auditLog)
          /\ SubSeq(auditLog', 1, Len(auditLog)) = auditLog]_vars

\* A weekly plan has been returned
PlanReturned == pc = "done" /\ turn.mode = "plan" /\ turn.raised = "None"

\* The confidence of a plan parsed from the model's JSON for the same context
ParsedPlanConfidence(has_targets) == PlanConfidence(has_targets, FALSE)

\* C27 as claimed: the plan of the JSON-parse-failure fallback carries a lower
\* confidence score than a plan parsed from the model's JSON for the same
\* user context.
C27_FallbackPlanLessConfident ==
    (PlanReturned /\ turn.plan.fallback) =>
        turn.plan.confidence < ParsedPlanConfidence(turn.plan.has_targets)

\* C27 as the code has it: the plan of the JSON-parse-failure fallback carries
\* the confidence of a parsed plan for the same user context, 0.8 when
\* calculated targets exist and 0.5 otherwise.
C27_FallbackPlanEquallyConfident ==
    (PlanReturned /\ turn.plan.fallback) =>
        /\ turn.plan.confidence = ParsedPlanConfidence(turn.plan.has_targets)
        /\ turn.plan.confidence = IF turn.plan.has_targets THEN 80 ELSE 50
        /\ turn.plan.daily_targets =
              IF turn.plan.has_targets THEN "calculated" ELSE "defaults"

C27_Witness ==
    PlanReturned /\ turn.plan.fallback /\ turn.plan.has_targets
        /\ turn.plan.confidence = 80

\* What the successful tool bodies return
OkPayloads == {b.data : b \in {x \in Bodies : x.kind = "ok"}}

\* The entry was written in this step: it is no entry of the cache before,
\* as it was or aged
Written(e) == ~\E o \in cache : o.key = e.key /\ o.data = e.data /\ o.left >= e.left

\* C28: a failed tool run (a success=false result or a raised exception) is
\* never written to the cache: every entry is written by a call whose tool
\* body ran and succeeded and holds that payload, so a cached result is always
\* a success carrying the payload of a successful run.
C28_FailedRunsNeverCached ==
    /\ [](\A e \in cache : e.data \in OkPayloads)
    /\ [](lastCall.result.cached =>
            /\ lastCall.result.success /\ lastCall.result.error = "None"
            /\ lastCall.result.data \in OkPayloads)
    /\ [][\A e \in cache' : Written(e) =>
            /\ lastCall'.ran /\ lastCall'.result.success /\ ~lastCall'.result.cached
            /\ e.key = get_cache_key(lastCall'.name, lastCall'.user, lastCall'.arguments)
            /\ e.data = lastCall'.result.data]_vars

\* After a failed run of the tool body the next call of the same key ran the
\* body again
C28_Witness ==
    /\ redis /\ lastCall.name = "get_user_profile"
    /\ lastCall.first # NoWatch /\ lastCall.first.ran /\ ~lastCall.first.success
    /\ lastCall.ran /\ lastCall.result.success /\ ~lastCall.result.cached
    /\ CacheEntry(LastKey) # {}

\* The turn's input check came back as a block or a flag with a message
InputRefused(t) ==
    /\ t.mode \in {"chat", "stream"}
    /\ t.input_check.action \in {"block", "flag"}
    /\ t.input_check.message.msg \notin {"None", ""}

\* C29: a turn that the input check short-circuits leaves the session's
\* accounting unchanged: message_count, tokens_used and conversation_history
\* after the turn are what they were before it, in chat and in chat_stream.
C29_ShortCircuitLeavesSession ==
    /\ []((InputRefused(turn) /\ pc = "done") => session \in InitialSessions)
    /\ [][InputRefused(turn') =>
            /\ session'.message_count = session.message_count
            /\ session'.tokens_used = session.tokens_used
            /\ session'.conversation_history = session.conversation_history]_vars

C29_Witness ==
    /\ pc = "done" /\ InputRefused(turn) /\ turn.mode = "stream"
    /\ turn.raised = "None" /\ Len(delivered) = 2
    /\ session.message_count = 12 /\ Len(session.conversation_history) = 12

\* The positions of the done events among the events delivered
DoneEvents(events) == {k \in 1..Len(events) : events[k].type = "done"}

\* C30: every chat stream that ends without an error has delivered exactly
\* one done event, and that event is the last one delivered.
C30_ExactlyOneDoneAtEnd ==
    (turn.closing # <<>> /\ turn.raised = "None") =>
        DoneEvents(Streamed) = {Len(Streamed)}

====
